---- MODULE Spec2Model ----
(***************************************************************************)
(* GitLab -> GitHub migration tool (src/index.py).                         *)
(*                                                                         *)
(* The program is sequential.  Its state is the migrator object's fields,  *)
(* the locals of main and of migrate_repositories, and the position of the *)
(* single thread of control (pc).  The outside world (the gh and git       *)
(* executables, the GitLab and GitHub REST services, the operator at the   *)
(* prompt) is a nondeterministic choice of the outcome of every call.      *)
(* Text is a sequence of one-character strings.                            *)
(***************************************************************************)
EXTENDS Integers, Sequences, FiniteSets, TLC

VARIABLES
    pc,                   \* position of the thread of control
    exitCode,             \* process exit status, -1 while running
    exitReason,           \* which statement ended the process
    gitlab_token,         \* self.gitlab_token is set
    github_token,         \* self.github_token is set
    use_github_import,    \* self.use_github_import
    gh_installed,         \* the gh executable can be started
    git_installed,        \* the git executable can be started
    repos,                \* get_gitlab_repositories: repos accumulated so far
    page,                 \* get_gitlab_repositories: page
    selected,             \* the list handed to migrate_repositories
    i,                    \* migrate_repositories: enumerate index of the loop
    successful_code,      \* migrate_repositories: successful_code
    failed_repos,         \* migrate_repositories: failed_repos
    succeeded_repos_safe, \* migrate_repositories: succeeded_repos_safe
    processed,            \* history: repositories whose loop body was entered
    outcome,              \* history: per loop body, how it ended
    lastCreate,           \* history: latest create_github_repo call
    lastExists,           \* history: latest check_github_repo_exists call
    calls,                \* history: results of successive create_github_repo calls
    target,               \* destination repository name the running transfer addresses
    steps,                \* history: steps of the running transfer
    tempDirs,             \* number of live temporary directories
    polls,                \* migrate_repository_via_github_import: polls issued
    lastStatus,           \* latest polled import status
    code_ok,              \* result the running transfer is about to return
    pageStatus,           \* get_gitlab_repositories: response.status_code
    printed,              \* history: texts run_and_stream and the mirror failure report printed
    ops,                  \* history: destination-facing methods called so far
    skipped,              \* select_repositories: names the latest input had skipped
    runs,                 \* how many times the program has been started
    reported,             \* failed list printed by the summary of the run before
    destination,          \* history: names create_github_repo has found or created
    confirm               \* main: the answer to the confirmation prompt

vars == <<pc, exitCode, exitReason, gitlab_token, github_token, use_github_import,
          gh_installed, git_installed, repos, page, selected, i, successful_code,
          failed_repos, succeeded_repos_safe, processed, outcome, lastCreate,
          lastExists, calls, target, steps, tempDirs, polls,
          lastStatus, code_ok, pageStatus, printed, ops, skipped, runs, reported,
          destination, confirm>>

config == <<gitlab_token, github_token, use_github_import, gh_installed, git_installed>>
inventory == <<repos, page, pageStatus>>
batch == <<i, successful_code, failed_repos, succeeded_repos_safe, processed, outcome>>
provision == <<lastCreate, lastExists, calls, destination>>
transfer == <<target, steps, tempDirs, polls, lastStatus, code_ok>>
restarts == <<runs, reported>>

-----------------------------------------------------------------------------
(* Bounds of the model. *)

MaxSel == 2       \* longest selection handed to migrate_repositories
MaxPages == 2     \* non-empty listing pages served by the source platform
MaxPick == 1      \* most indices the operator types at the selection prompt
MaxCalls == 2     \* create_github_repo calls made in succession on one name
MaxRuns == 2      \* times the operator starts the program, one after the other

(* range(120) in migrate_repository_via_github_import *)
MaxPolls == 120

-----------------------------------------------------------------------------
(* Text helpers. *)

Max(S) == CHOOSE m \in S : \A x \in S : x <= m

Min(S) == CHOOSE m \in S : \A x \in S : m <= x

(* str.replace(' ', '-') *)
ReplaceSpaces(s) == [k \in 1..Len(s) |-> IF s[k] = " " THEN "-" ELSE s[k]]

(* str.endswith('.git') *)
EndsWithDotGit(s) ==
    /\ Len(s) >= 4
    /\ SubSeq(s, Len(s) - 3, Len(s)) = <<".", "g", "i", "t">>

(* urlparse(url).path: what follows scheme://netloc, up to a ? or # *)
UrlPath(url) ==
    LET seps == {k \in 1..(Len(url) - 2) :
                    url[k] = ":" /\ url[k+1] = "/" /\ url[k+2] = "/"}
        rest == IF seps = {} THEN url ELSE SubSeq(url, Min(seps) + 3, Len(url))
        slashes == {k \in 1..Len(rest) : rest[k] = "/"}
        pth == IF seps = {} THEN rest
               ELSE IF slashes = {} THEN <<>>
               ELSE SubSeq(rest, Min(slashes), Len(rest))
        cuts == {k \in 1..Len(pth) : pth[k] \in {"?", "#"}}
    IN  IF cuts = {} THEN pth ELSE SubSeq(pth, 1, Min(cuts) - 1)

(* Path(p).name: the final component, trailing slashes dropped *)
PathName(p) ==
    LET keep == {k \in 1..Len(p) : p[k] # "/"}
        q == IF keep = {} THEN <<>> ELSE SubSeq(p, 1, Max(keep))
        slashes == {k \in 1..Len(q) : q[k] = "/"}
    IN  IF slashes = {} THEN q ELSE SubSeq(q, Max(slashes) + 1, Len(q))

(* urlparse(url).netloc: what stands between :// and the next / ? or # *)
Netloc(url) ==
    LET seps == {k \in 1..(Len(url) - 2) :
                    url[k] = ":" /\ url[k+1] = "/" /\ url[k+2] = "/"}
        rest == IF seps = {} THEN <<>> ELSE SubSeq(url, Min(seps) + 3, Len(url))
        ends == {k \in 1..Len(rest) : rest[k] \in {"/", "?", "#"}}
    IN  IF ends = {} THEN rest ELSE SubSeq(rest, 1, Min(ends) - 1)

(* urlparse raises ValueError("Invalid IPv6 URL") on a netloc holding one
   square bracket without the other *)
UrlParseRaises(url) ==
    LET opens == \E k \in 1..Len(Netloc(url)) : Netloc(url)[k] = "["
        closes == \E k \in 1..Len(Netloc(url)) : Netloc(url)[k] = "]"
    IN  opens # closes

(* get_safe_repo_name; an absent or empty field is the empty text *)
get_safe_repo_name(gitlab_repo) ==
    IF gitlab_repo.path # <<>> THEN gitlab_repo.path
    ELSE IF UrlParseRaises(gitlab_repo.http_url_to_repo)
    THEN ReplaceSpaces(IF gitlab_repo.name # <<>> THEN gitlab_repo.name
                       ELSE <<"r", "e", "p", "o">>)
    ELSE LET last == PathName(UrlPath(gitlab_repo.http_url_to_repo))
             stem == IF EndsWithDotGit(last) THEN SubSeq(last, 1, Len(last) - 4)
                     ELSE last
         IN  ReplaceSpaces(stem)

-----------------------------------------------------------------------------
(* Repository descriptors as served by the GitLab projects endpoint. *)

UrlOf(seg) ==
    <<"h", "t", "t", "p", "s", ":", "/", "/", "g", "l", "/", "u", "/">>
        \o seg \o <<".", "g", "i", "t">>

(* display name equal to the path slug *)
RepoApp ==
    [id |-> 1, name |-> <<"a", "p", "p">>, path |-> <<"a", "p", "p">>,
     http_url_to_repo |-> UrlOf(<<"a", "p", "p">>), namespace |-> "wuuashen"]

(* display name with capitals and a space, lower-case hyphenated slug *)
RepoMyRepo ==
    [id |-> 2, name |-> <<"M", "y", " ", "R">>, path |-> <<"m", "y", "-", "r">>,
     http_url_to_repo |-> UrlOf(<<"m", "y", "-", "r">>), namespace |-> "wuuashen"]

(* a project of another namespace, dropped by the owner filter *)
RepoForeign ==
    [id |-> 3, name |-> <<"l", "i", "b">>, path |-> <<"l", "i", "b">>,
     http_url_to_repo |-> UrlOf(<<"l", "i", "b">>), namespace |-> "group"]

OwnedRepos == {RepoApp, RepoMyRepo}

Catalog == OwnedRepos \cup {RepoForeign}

(* os.getenv('GITLAB_USERNAME', 'wuuashen') *)
gitlab_username == "wuuashen"

(* descriptors get_safe_repo_name may be handed: each of the three fields it
   reads may be absent *)
DisplayNames == {<<>>, <<"M", "y", " ", "R">>, <<"a", "p", "p">>}

PathSlugs == {<<>>, <<"m", "y", "-", "r">>, <<"a", "p", "p">>}

CloneUrls ==
    {<<>>,
     UrlOf(<<"t", "-", "w">>),
     UrlOf(<<"a", " ", "b">>),
     <<"h", "t", "t", "p", "s", ":", "/", "/", "g", "l", "/", "u", "/", "a", "p", "p">>,
     <<"h", "t", "t", "p", "s", ":", "/", "/", "g", "l", "/", "a", ".", "g", "i", "t", "/">>,
     <<"h", "t", "t", "p", "s", ":", "/", "/", "[", "g", "l", "/", "a", ".", "g", "i", "t">>}

Descriptors ==
    [id : {0}, name : DisplayNames, path : PathSlugs, http_url_to_repo : CloneUrls,
     namespace : {"wuuashen"}]

SeqsUpTo(S, n) == UNION {[1..k -> S] : k \in 0..n}

-----------------------------------------------------------------------------
(* Destination existence probe and repository creation. *)

(* outcomes of `gh repo view`: its exit status, or the exception of a
   missing executable *)
CliOutcomes == IF gh_installed THEN {"exit0", "nonzero"} ELSE {"FileNotFoundError"}

(* outcomes of GET /repos/{owner}/{name} *)
RestOutcomes == {"200", "404", "RequestException"}

(* the probes one check_github_repo_exists call performs: the REST probe is
   issued only when the CLI probe did not exit 0 *)
ProbeOutcomes ==
    {p \in [cli : CliOutcomes, rest : RestOutcomes \cup {"not_called"}] :
        (p.cli = "exit0") <=> (p.rest = "not_called")}

(* check_github_repo_exists without the try of lines 155-165 *)
check_github_repo_exists_unguarded(probe) ==
    IF probe.cli = "FileNotFoundError" THEN "raise"
    ELSE IF probe.cli = "exit0" THEN "True"
    ELSE IF probe.rest = "200" THEN "True"
    ELSE "False"

(* check_github_repo_exists: "True" or "False"; no exception leaves it *)
check_github_repo_exists(probe) ==
    IF probe.cli = "exit0" THEN "True"
    ELSE IF probe.rest = "200" THEN "True"
    ELSE "False"

(* str.lower(), word by word *)
Lower(w) ==
    CASE w = "Name" -> "name"
      [] w = "Repository" -> "repository"
      [] w = "GraphQL:" -> "graphql:"
      [] w = "(createRepository)" -> "(createrepository)"
      [] w = "HTTP" -> "http"
      [] w = "Bad" -> "bad"
      [] OTHER -> w

LowerText(msg) == [k \in 1..Len(msg) |-> Lower(msg[k])]

(* `sub in msg` on texts held as sequences of words *)
Contains(msg, sub) ==
    \E k \in 1..(Len(msg) - Len(sub) + 1) : SubSeq(msg, k, k + Len(sub) - 1) = sub

(* error texts `gh repo create` may leave on stderr *)
MsgGraphQL ==
    <<"GraphQL:", "Name", "already", "exists", "on", "this", "account", "(createRepository)">>

MsgRest == <<"HTTP", "422:", "name", "already", "exists", "on", "this", "account">>

MsgOtherExists == <<"Repository", "already", "exists">>

MsgAuth == <<"HTTP", "401:", "Bad", "credentials">>

CreateMessages == {MsgGraphQL, MsgRest, MsgOtherExists, MsgAuth}

(* outcomes of subprocess.run(['gh', 'repo', 'create', ...], check=True) *)
CreateOutcomes ==
    IF gh_installed
    THEN {[rc |-> "exit0", msg |-> <<>>]}
             \cup {[rc |-> "nonzero", msg |-> m] : m \in CreateMessages}
    ELSE {[rc |-> "FileNotFoundError", msg |-> <<>>]}

(* the test of line 300 without its case-insensitive half *)
NameAlreadyExists_case_sensitive(msg) ==
    Contains(msg, <<"Name", "already", "exists", "on", "this", "account">>)

(* the test of line 300 *)
NameAlreadyExists(msg) ==
    \/ Contains(msg, <<"Name", "already", "exists", "on", "this", "account">>)
    \/ Contains(LowerText(msg), <<"name", "already", "exists", "on", "this", "account">>)

(* create_github_repo without the early return of lines 275-277 *)
create_github_repo_always_creates(probe, create) ==
    IF create.rc = "exit0"
    THEN [result |-> "True", how |-> "created", create_called |-> TRUE]
    ELSE IF create.rc = "FileNotFoundError"
    THEN [result |-> "raise", how |-> "raise", create_called |-> TRUE]
    ELSE [result |-> "False", how |-> "failed", create_called |-> TRUE]

(* create_github_repo: result is "True", "False", or "raise" when the create
   call ends in an exception that is no CalledProcessError; how tells the
   path taken, create_called whether `gh repo create` was invoked *)
create_github_repo(probe, create) ==
    IF check_github_repo_exists(probe) = "True"
    THEN [result |-> "True", how |-> "exists", create_called |-> FALSE]
    ELSE IF create.rc = "exit0"
    THEN [result |-> "True", how |-> "created", create_called |-> TRUE]
    ELSE IF create.rc = "FileNotFoundError"
    THEN [result |-> "raise", how |-> "raise", create_called |-> TRUE]
    ELSE IF NameAlreadyExists(create.msg)
    THEN [result |-> "True", how |-> "absorbed", create_called |-> TRUE]
    ELSE [result |-> "False", how |-> "failed", create_called |-> TRUE]

(* the answers the probes may give for a name: once the program has been
   started again, they find only what the run before left at the destination *)
ProbesOf(name) ==
    IF runs > 1 /\ name \notin destination
    THEN {p \in ProbeOutcomes : check_github_repo_exists(p) = "False"}
    ELSE ProbeOutcomes

NoCreate == [index |-> 0, name |-> <<>>, result |-> "none", how |-> "none", msg |-> <<>>]

NoProbe == [cli |-> "none", rest |-> "none", result |-> "none"]

-----------------------------------------------------------------------------
(* migrate_repositories. *)

total == Len(selected)

(* the repository of the running loop body *)
repo == selected[i]

(* exit_code without the test for an empty selection *)
exit_code_vacuous(successful, n) == IF successful = n THEN 0 ELSE 1

(* line 506 *)
exit_code(successful, n) == IF successful = n /\ n > 0 THEN 0 ELSE 1

(* an exception nobody catches: the interpreter prints the traceback and the
   process ends with status 1 *)
Uncaught ==
    /\ pc' = "exited"
    /\ exitCode' = 1
    /\ exitReason' = "uncaught"

(* the locals of a transfer function, gone once it has returned *)
NoTransfer ==
    /\ target' = <<>>
    /\ steps' = <<>>
    /\ polls' = 0
    /\ lastStatus' = "none"
    /\ code_ok' = "none"

(* a transfer function returns ok to line 469 or 471 *)
Return(ok) ==
    /\ pc' = "transfer_return"
    /\ code_ok' = ok

(* lines 473-474: successful_code after a transfer that returned ok *)
next_successful(successful, ok) == IF ok = "True" THEN successful + 1 ELSE successful

(* next_failed losing the name of the failed repository *)
next_failed_lost(failed, ok, name) == failed

(* lines 463 and 478-479: failed_repos after a step that returned ok *)
next_failed(failed, ok, name) == IF ok = "True" THEN failed ELSE Append(failed, name)

(* next_succeeded listing the slug whatever the transfer returned *)
next_succeeded_provisioned(succeeded, ok, safe_name) == Append(succeeded, safe_name)

(* lines 473-475: succeeded_repos_safe after a transfer that returned ok *)
next_succeeded(succeeded, ok, safe_name) ==
    IF ok = "True" THEN Append(succeeded, safe_name) ELSE succeeded

(* lines 473-479: the result of the transfer is recorded *)
Record ==
    /\ pc = "transfer_return"
    /\ pc' = "loop"
    /\ successful_code' = next_successful(successful_code, code_ok)
    /\ failed_repos' = next_failed(failed_repos, code_ok, repo.name)
    /\ succeeded_repos_safe' =
          next_succeeded(succeeded_repos_safe, code_ok, get_safe_repo_name(repo))
    /\ outcome' = Append(outcome, IF code_ok = "True" THEN "ok" ELSE "transfer_failed")
    /\ NoTransfer
    /\ UNCHANGED <<i, processed, exitCode, exitReason, config, restarts, confirm,
                   printed, ops, skipped, inventory, selected, provision, tempDirs>>

(* lines 453-471: the loop takes the next repository and provisions its
   destination; on success the configured transfer is entered *)
CreateRepo ==
    /\ pc = "loop"
    /\ i < total
    /\ \E probe \in ProbesOf(get_safe_repo_name(selected[i + 1])),
          create \in CreateOutcomes :
         LET nxt == selected[i + 1]
             safe_name == get_safe_repo_name(nxt)
             r == create_github_repo(probe, create)
         IN  /\ i' = i + 1
             /\ destination' = IF r.result = "True" THEN destination \cup {safe_name}
                               ELSE destination
             /\ ops' = ops \cup {"check_github_repo_exists", "create_github_repo"}
             /\ processed' = Append(processed, nxt)
             /\ lastCreate' = [index |-> i + 1, name |-> safe_name,
                               result |-> r.result, how |-> r.how,
                               msg |-> IF r.create_called THEN create.msg ELSE <<>>]
             /\ CASE r.result = "raise" ->
                       /\ Uncaught
                       /\ UNCHANGED <<failed_repos, outcome>>
                  [] r.result = "False" ->
                       /\ failed_repos' = next_failed(failed_repos, r.result, nxt.name)
                       /\ outcome' = Append(outcome, "create_failed")
                       /\ pc' = "loop"
                       /\ UNCHANGED <<exitCode, exitReason>>
                  [] OTHER ->
                       /\ pc' = IF use_github_import THEN "import_submit" ELSE "mirror_enter"
                       /\ UNCHANGED <<failed_repos, outcome, exitCode, exitReason>>
    /\ UNCHANGED <<config, restarts, confirm, printed, skipped, inventory, selected,
                   successful_code, succeeded_repos_safe, lastExists, calls, transfer>>

(* lines 481-507: the loop is over; summary and sys.exit *)
Summary ==
    /\ pc = "loop"
    /\ i = total
    /\ pc' = "exited"
    /\ exitCode' = exit_code(successful_code, total)
    /\ exitReason' = "summary"
    /\ UNCHANGED <<config, restarts, confirm, printed, ops, skipped, inventory,
                   selected, batch, provision, transfer>>

-----------------------------------------------------------------------------
(* migrate_repository_code: the mirror transfer. *)

(* outcomes of a git subprocess *)
GitOutcomes == IF git_installed THEN {"exit0", "nonzero"} ELSE {"FileNotFoundError"}

(* run_and_stream without the test of the exit status *)
run_and_stream_ignores_status(out) ==
    IF out \in {"exit0", "nonzero"} THEN "returned" ELSE out

(* run_and_stream: returns on exit status 0, raises CalledProcessError on any
   other status, and lets the exception of Popen through *)
run_and_stream(out) ==
    IF out = "exit0" THEN "returned"
    ELSE IF out = "nonzero" THEN "CalledProcessError"
    ELSE out

(* the value of GITHUB_TOKEN; texts are sequences of fragments, and the token
   is one fragment wherever it occurs *)
Secret == "ghp_secret"

(* the token occurs in the text *)
HasToken(text) == \E k \in 1..Len(text) : text[k] = Secret

(* lines 75-81: text.replace(self.github_token, '***') *)
redact(text) ==
    IF text = <<>> THEN text
    ELSE [k \in 1..Len(text) |->
             IF github_token /\ text[k] = Secret THEN "***" ELSE text[k]]

(* the command lines migrate_repository_code hands to run_and_stream; the
   one of `remote add` carries github_url, which embeds the token *)
MirrorCmd(name) ==
    CASE name = "clone" -> <<"git", "clone", "--mirror", "gitlab_url", "repo_path">>
      [] name = "remote_add" ->
             <<"git", "-C", "repo_path", "remote", "add", "origin",
               "https://user:", Secret, "@github.com/user/safe_name.git">>
      [] name = "push" -> <<"git", "-C", "repo_path", "push", "--mirror">>

(* what a git subprocess may write to its merged stdout and stderr: a text
   without the destination URL, or one quoting github_url as the command was
   given it, which git does in its trace lines when GIT_TRACE is set in the
   inherited environment; `git clone` is never given github_url *)
OutPlain == <<"fatal:", "repository", "not", "found">>

OutWithUrl ==
    <<"fatal:", "unable", "to", "access",
      "https://user:", Secret, "@github.com/user/safe_name.git">>

GitOutputs(name, out) ==
    IF out = "FileNotFoundError" THEN {<<>>}
    ELSE IF name = "clone" THEN {OutPlain}
    ELSE {OutPlain, OutWithUrl}

(* lines 85-89 and 106-109: run_and_stream prints the command line, then
   every line the subprocess writes *)
stream_prints(cmd, text) ==
    {<<"$">> \o redact(cmd)} \cup (IF text = <<>> THEN {} ELSE {text})

(* lines 348-350: the failure report carries e.output, the whole output of
   the failed command *)
failure_report(detail) == <<"code", "migration", "failed:">> \o detail

(* the texts one run_and_stream step of migrate_repository_code prints,
   the failure report included when the step raises CalledProcessError *)
step_prints(name, out, text) ==
    stream_prints(MirrorCmd(name), text)
        \cup (IF run_and_stream(out) = "CalledProcessError"
              THEN {failure_report(text)} ELSE {})

(* a run_and_stream step of the try block: the next position on success, the
   except clause's return False on CalledProcessError, otherwise the
   exception leaves the function *)
MirrorStep(name, next) ==
    \E out \in GitOutcomes :
        /\ steps' = Append(steps, <<name, out>>)
        /\ \E text \in GitOutputs(name, out) :
               printed' = printed \cup step_prints(name, out, text)
        /\ CASE run_and_stream(out) = "returned" ->
                  /\ pc' = next
                  /\ UNCHANGED code_ok
             [] run_and_stream(out) = "CalledProcessError" ->
                  /\ pc' = "mirror_exit"
                  /\ code_ok' = "False"
             [] OTHER ->
                  /\ pc' = "mirror_exit"
                  /\ code_ok' = "raise"

(* lines 306-317: names are derived and the temporary directory is made *)
MirrorEnter ==
    /\ pc = "mirror_enter"
    /\ ops' = ops \cup {"migrate_repository_code"}
    /\ target' = get_safe_repo_name(repo)
    /\ tempDirs' = tempDirs + 1
    /\ steps' = <<>>
    /\ code_ok' = "none"
    /\ pc' = "mirror_clone"
    /\ UNCHANGED <<exitCode, exitReason, config, restarts, confirm, printed, skipped,
                   inventory, selected, batch, provision, polls, lastStatus>>

(* lines 322-324 *)
MirrorClone ==
    /\ pc = "mirror_clone"
    /\ MirrorStep("clone", "mirror_remote_rm")
    /\ UNCHANGED <<exitCode, exitReason, config, restarts, confirm, ops, skipped,
                   inventory, selected, batch, provision, target, tempDirs, polls,
                   lastStatus>>

(* lines 329-331: subprocess.run without check; the exit status is dropped *)
MirrorRemoveOrigin ==
    /\ pc = "mirror_remote_rm"
    /\ \E out \in GitOutcomes :
         /\ steps' = Append(steps, <<"remote_rm", out>>)
         /\ IF out \in {"exit0", "nonzero"}
            THEN pc' = "mirror_remote_add" /\ UNCHANGED code_ok
            ELSE pc' = "mirror_exit" /\ code_ok' = "raise"
    /\ UNCHANGED <<exitCode, exitReason, config, restarts, confirm, printed, ops,
                   skipped, inventory, selected, batch, provision, target, tempDirs,
                   polls, lastStatus>>

(* lines 333-335 *)
MirrorAddOrigin ==
    /\ pc = "mirror_remote_add"
    /\ MirrorStep("remote_add", "mirror_push")
    /\ UNCHANGED <<exitCode, exitReason, config, restarts, confirm, ops, skipped,
                   inventory, selected, batch, provision, target, tempDirs, polls,
                   lastStatus>>

(* lines 339-346: the push, and return True after it *)
MirrorPush ==
    /\ pc = "mirror_push"
    /\ \E out \in GitOutcomes :
         /\ steps' = Append(steps, <<"push", out>>)
         /\ \E text \in GitOutputs("push", out) :
                printed' = printed \cup step_prints("push", out, text)
         /\ pc' = "mirror_exit"
         /\ code_ok' = CASE run_and_stream(out) = "returned" -> "True"
                         [] run_and_stream(out) = "CalledProcessError" -> "False"
                         [] OTHER -> "raise"
    /\ UNCHANGED <<exitCode, exitReason, config, restarts, confirm, ops, skipped,
                   inventory, selected, batch, provision, target, tempDirs, polls,
                   lastStatus>>

(* cleanup that removes the directory only after a successful transfer *)
cleanup_on_success(n, ok) == IF ok = "True" THEN n - 1 ELSE n

(* the temporary directories left once the with block of line 316 is exited,
   whatever ended it *)
cleanup(n, ok) == n - 1

(* line 316: leaving the with block removes the temporary directory on every
   path, then the result reaches the orchestrator or the exception goes on *)
MirrorExit ==
    /\ pc = "mirror_exit"
    /\ tempDirs' = cleanup(tempDirs, code_ok)
    /\ IF code_ok = "raise"
       THEN Uncaught
       ELSE pc' = "transfer_return" /\ UNCHANGED <<exitCode, exitReason>>
    /\ UNCHANGED <<config, restarts, confirm, printed, ops, skipped, inventory,
                   selected, batch, provision, target, steps, polls, lastStatus,
                   code_ok>>

-----------------------------------------------------------------------------
(* migrate_repository_via_github_import: the remote import transfer. *)

(* outcomes of PUT {import_url}: the HTTP status, or a requests exception *)
SubmitOutcomes == {"200", "201", "202", "404", "RequestException"}

(* line 382 taking every 2xx status for an accepted submission *)
Accepted_any_2xx(status) == status \in {"200", "201", "202"}

(* line 382 *)
Accepted(status) == status \in {"201", "202"}

(* outcomes of GET {import_url}: with HTTP 200 the value of the status field
   ("absent" when the body has none), else the HTTP status or a requests
   exception *)
PollOutcomes ==
    {"complete", "error", "failed", "importing", "absent", "http404", "RequestException"}

(* poll_verdict polling on after a response that is no HTTP 200 *)
poll_verdict_retries_errors(out) ==
    IF out = "complete" THEN "True"
    ELSE IF out \in {"error", "failed"} THEN "False"
    ELSE "continue"

(* poll_verdict taking only "error" for a failed job *)
poll_verdict_misses_failed(out) ==
    IF out \in {"http404", "RequestException"} THEN "False"
    ELSE IF out = "complete" THEN "True"
    ELSE IF out = "error" THEN "False"
    ELSE "continue"

(* lines 389-399: what one poll response does to the transfer *)
poll_verdict(out) ==
    IF out \in {"http404", "RequestException"} THEN "False"
    ELSE IF out = "complete" THEN "True"
    ELSE IF out \in {"error", "failed"} THEN "False"
    ELSE "continue"

(* lines 353-384: names are derived and the import job is submitted *)
ImportSubmit ==
    /\ pc = "import_submit"
    /\ ops' = ops \cup {"migrate_repository_via_github_import"}
    /\ target' = repo.name
    /\ polls' = 0
    /\ lastStatus' = "none"
    /\ \E out \in SubmitOutcomes :
         /\ steps' = <<<<"submit", out>>>>
         /\ IF Accepted(out)
            THEN pc' = "import_poll" /\ code_ok' = "none"
            ELSE Return("False")
    /\ UNCHANGED <<exitCode, exitReason, config, restarts, confirm, printed, skipped,
                   inventory, selected, batch, provision, tempDirs>>

(* lines 387-400: one turn of the polling loop *)
ImportPoll ==
    /\ pc = "import_poll"
    /\ polls < MaxPolls
    /\ polls' = polls + 1
    /\ \E out \in PollOutcomes :
         /\ lastStatus' = out
         /\ IF poll_verdict(out) = "continue"
            THEN UNCHANGED <<pc, code_ok>>
            ELSE Return(poll_verdict(out))
    /\ UNCHANGED <<exitCode, exitReason, config, restarts, confirm, printed, ops,
                   skipped, inventory, selected, batch, provision, target, steps,
                   tempDirs>>

(* lines 402-403: the loop ran out of turns *)
ImportTimeout ==
    /\ pc = "import_poll"
    /\ polls = MaxPolls
    /\ steps' = Append(steps, <<"timeout", "none">>)
    /\ Return("False")
    /\ UNCHANGED <<exitCode, exitReason, config, restarts, confirm, printed, ops,
                   skipped, inventory, selected, batch, provision, target, tempDirs,
                   polls, lastStatus>>

-----------------------------------------------------------------------------
(* main: construction, inventory, selection, confirmation. *)

(* sys.exit(code), or main returning (code 0) *)
Exit(code, reason) ==
    /\ pc' = "exited"
    /\ exitCode' = code
    /\ exitReason' = reason

(* lines 33-54: __init__ ends the process when a token is missing *)
Construct ==
    /\ pc = "init"
    /\ IF ~gitlab_token THEN Exit(1, "no_gitlab_token")
       ELSE IF ~github_token THEN Exit(1, "no_github_token")
       ELSE pc' = "list" /\ UNCHANGED <<exitCode, exitReason>>
    /\ UNCHANGED <<config, restarts, confirm, printed, ops, skipped, inventory,
                   selected, batch, provision, transfer>>

(* lines 146-147: the owner filter *)
user_repos(all) == SelectSeq(all, LAMBDA r : r.namespace = gitlab_username)

(* statuses the GitLab projects endpoint answers a page request with *)
ListStatuses == {"200", "401", "500"}

(* get_gitlab_repositories going on whatever the status of the response *)
listing_ok_unchecked(status) == TRUE

(* line 134: the listing goes on only after HTTP 200 *)
listing_ok(status) == status = "200"

(* lines 124-143: one turn of the paging loop; any status but 200 ends the
   process, a page holds one project the listing has not served before, and
   the empty page ends the loop *)
ListPage ==
    /\ pc = "list"
    /\ \E status \in ListStatuses :
         /\ pageStatus' = status
         /\ IF ~listing_ok(status)
            THEN /\ Exit(1, "list_failed")
                 /\ UNCHANGED <<repos, page>>
            ELSE \/ /\ page <= MaxPages
                    /\ \E r \in Catalog :
                         /\ \A k \in 1..Len(repos) : repos[k] # r
                         /\ repos' = Append(repos, r)
                    /\ page' = page + 1
                    /\ UNCHANGED <<pc, exitCode, exitReason>>
                 \/ /\ repos' = user_repos(repos)
                    /\ page' = 0
                    /\ pc' = "main_repos"
                    /\ UNCHANGED <<exitCode, exitReason>>
    /\ UNCHANGED <<config, restarts, confirm, printed, ops, skipped, selected, batch,
                   provision, transfer>>

(* lines 516-519 *)
MainNoRepos ==
    /\ pc = "main_repos"
    /\ repos = <<>>
    /\ Exit(0, "no_repos")
    /\ UNCHANGED <<config, restarts, confirm, printed, ops, skipped, inventory,
                   selected, batch, provision, transfer>>

(* lines 230-231 and 251-257: the repositories at the given zero-based indices
   whose destination name the probe answers as not existing *)
RECURSIVE available(_, _, _)
available(all, indices, probes) ==
    IF indices = <<>> THEN <<>>
    ELSE LET rest == available(all, Tail(indices), Tail(probes))
         IN  IF check_github_repo_exists(Head(probes)) = "True" THEN rest
             ELSE <<all[Head(indices) + 1]>> \o rest

(* lines 230-233 and 254-255: the display names of those repositories at the
   given indices that the probe answers as existing, which are left out *)
RECURSIVE skipped_names(_, _, _)
skipped_names(all, indices, probes) ==
    IF indices = <<>> THEN {}
    ELSE IF Head(indices) < 0 \/ Head(indices) >= Len(all) THEN {}
    ELSE (IF check_github_repo_exists(Head(probes)) = "True"
          THEN {all[Head(indices) + 1].name} ELSE {})
             \cup skipped_names(all, Tail(indices), Tail(probes))

(* lines 212-226: the listing is displayed and the operator quits *)
SelectQuit ==
    /\ pc = "main_repos"
    /\ ops' = ops \cup {"check_github_repo_exists"}
    /\ repos # <<>>
    /\ Exit(0, "quit")
    /\ UNCHANGED <<config, restarts, confirm, printed, skipped, inventory, selected,
                   batch, provision, transfer>>

(* lines 228-235: 'all' returns whatever the probes leave, even nothing *)
SelectAll ==
    /\ pc = "main_repos"
    /\ ops' = ops \cup {"check_github_repo_exists"}
    /\ repos # <<>>
    /\ \E probes \in [1..Len(repos) -> ProbeOutcomes] :
         /\ \A k \in 1..Len(repos) : probes[k] \in ProbesOf(get_safe_repo_name(repos[k]))
         /\ selected' = available(repos, [k \in 1..Len(repos) |-> k - 1], probes)
         /\ skipped' = skipped_names(repos, [k \in 1..Len(repos) |-> k - 1], probes)
    /\ pc' = "main_selected"
    /\ UNCHANGED <<exitCode, exitReason, config, restarts, confirm, printed, inventory,
                   batch, provision, transfer>>

(* lines 237-268: indices are typed; an index out of range, a list whose
   repositories all exist already, or text that is no number leads back to
   the prompt *)
SelectIndices ==
    /\ pc = "main_repos"
    /\ ops' = ops \cup {"check_github_repo_exists"}
    /\ repos # <<>>
    /\ \E n \in 1..MaxPick :
         \E indices \in [1..n -> -1..Len(repos)], probes \in [1..n -> ProbeOutcomes] :
            /\ \A k \in 1..n :
                  (0 <= indices[k] /\ indices[k] < Len(repos)) =>
                      probes[k] \in ProbesOf(get_safe_repo_name(repos[indices[k] + 1]))
            /\ skipped' = skipped_names(repos, indices, probes)
            /\ IF /\ \A k \in 1..n : 0 <= indices[k] /\ indices[k] < Len(repos)
                  /\ available(repos, indices, probes) # <<>>
               THEN /\ selected' = available(repos, indices, probes)
                    /\ pc' = "main_selected"
               ELSE UNCHANGED <<selected, pc>>
    /\ UNCHANGED <<exitCode, exitReason, config, restarts, confirm, printed, inventory,
                   batch, provision, transfer>>

(* lines 523-525 *)
MainNoSelection ==
    /\ pc = "main_selected"
    /\ skipped' = {}
    /\ selected = <<>>
    /\ Exit(0, "empty_selection")
    /\ UNCHANGED <<config, restarts, confirm, printed, ops, inventory, selected, batch,
                   provision, transfer>>

(* the test of line 533 taking the empty answer for a yes *)
confirmed_unless_no(answer) == answer # "n"

(* line 533: only y and yes confirm *)
confirmed(answer) == answer \in {"y", "yes"}

(* lines 528-538: anything but y or yes cancels; otherwise
   migrate_repositories is entered *)
Confirm ==
    /\ pc = "main_selected"
    /\ skipped' = {}
    /\ selected # <<>>
    /\ \E answer \in {"y", "yes", "n", ""} :
         /\ confirm' = answer
         /\ IF confirmed(answer)
            THEN pc' = "loop" /\ UNCHANGED <<exitCode, exitReason>>
            ELSE Exit(0, "cancelled")
    /\ UNCHANGED <<config, restarts, printed, ops, inventory, selected, batch,
                   provision, transfer>>

-----------------------------------------------------------------------------
(* The program, and its parts on their own. *)

(* nothing has run yet *)
Fresh ==
    /\ exitCode = -1
    /\ exitReason = "none"
    /\ repos = <<>>
    /\ page = 1
    /\ i = 0
    /\ successful_code = 0
    /\ failed_repos = <<>>
    /\ succeeded_repos_safe = <<>>
    /\ processed = <<>>
    /\ outcome = <<>>
    /\ lastCreate = NoCreate
    /\ lastExists = NoProbe
    /\ calls = <<>>
    /\ steps = <<>>
    /\ tempDirs = 0
    /\ polls = 0
    /\ lastStatus = "none"
    /\ code_ok = "none"
    /\ pageStatus = "none"
    /\ printed = {}
    /\ ops = {}
    /\ skipped = {}
    /\ runs = 1
    /\ reported = <<>>
    /\ destination = {}
    /\ confirm = "none"

(* the process is started through main *)
Init ==
    /\ pc = "init"
    /\ gitlab_token \in BOOLEAN
    /\ github_token \in BOOLEAN
    /\ use_github_import \in BOOLEAN
    /\ gh_installed \in BOOLEAN
    /\ git_installed \in BOOLEAN
    /\ selected = <<>>
    /\ target = <<>>
    /\ Fresh

NextMigrate ==
    \/ CreateRepo
    \/ MirrorEnter
    \/ MirrorClone
    \/ MirrorRemoveOrigin
    \/ MirrorAddOrigin
    \/ MirrorPush
    \/ MirrorExit
    \/ ImportSubmit
    \/ ImportPoll
    \/ ImportTimeout
    \/ Record
    \/ Summary

Next ==
    \/ Construct
    \/ ListPage
    \/ MainNoRepos
    \/ SelectQuit
    \/ SelectAll
    \/ SelectIndices
    \/ MainNoSelection
    \/ Confirm
    \/ NextMigrate

Spec == Init /\ [][Next]_vars

(* the operator starts the program again after a summary that listed failed
   repositories: a new process, with the configuration of the one before *)
Rerun ==
    /\ pc = "exited"
    /\ exitReason = "summary"
    /\ failed_repos # <<>>
    /\ runs < MaxRuns
    /\ runs' = runs + 1
    /\ reported' = failed_repos
    /\ pc' = "init"
    /\ exitCode' = -1
    /\ exitReason' = "none"
    /\ repos' = <<>>
    /\ page' = 1
    /\ pageStatus' = "none"
    /\ selected' = <<>>
    /\ i' = 0
    /\ successful_code' = 0
    /\ failed_repos' = <<>>
    /\ succeeded_repos_safe' = <<>>
    /\ processed' = <<>>
    /\ outcome' = <<>>
    /\ lastCreate' = NoCreate
    /\ printed' = {}
    /\ ops' = {}
    /\ skipped' = {}
    /\ confirm' = "none"
    /\ UNCHANGED <<config, lastExists, calls, destination, transfer>>

(* the program in mirror mode, started up to MaxRuns times *)
InitRerun == Init /\ ~use_github_import

NextRerun ==
    \/ Construct
    \/ ListPage
    \/ MainNoRepos
    \/ SelectQuit
    \/ SelectAll
    \/ SelectIndices
    \/ MainNoSelection
    \/ Confirm
    \/ CreateRepo
    \/ MirrorEnter
    \/ MirrorClone
    \/ MirrorRemoveOrigin
    \/ MirrorAddOrigin
    \/ MirrorPush
    \/ MirrorExit
    \/ Record
    \/ Summary
    \/ Rerun

SpecRerun == InitRerun /\ [][NextRerun]_vars

(* migrate_repositories called on any selection *)
InitMigrate ==
    /\ pc = "loop"
    /\ gitlab_token = TRUE
    /\ github_token = TRUE
    /\ use_github_import \in BOOLEAN
    /\ gh_installed \in BOOLEAN
    /\ git_installed \in BOOLEAN
    /\ selected \in SeqsUpTo(OwnedRepos, MaxSel)
    /\ target = <<>>
    /\ Fresh

SpecMigrate == InitMigrate /\ [][NextMigrate]_vars

(* create_github_repo called again and again on one name *)
InitProvision ==
    /\ pc = "provision"
    /\ gitlab_token = TRUE
    /\ github_token = TRUE
    /\ use_github_import = FALSE
    /\ gh_installed \in BOOLEAN
    /\ git_installed = TRUE
    /\ selected = <<>>
    /\ target \in {get_safe_repo_name(r) : r \in OwnedRepos}
    /\ Fresh

(* lines 270-304, called with name = target *)
EnsureCreated ==
    /\ pc = "provision"
    /\ Len(calls) < MaxCalls
    /\ \E probe \in ProbeOutcomes, create \in CreateOutcomes :
         LET r == create_github_repo(probe, create)
         IN  /\ ops' = ops \cup {"check_github_repo_exists", "create_github_repo"}
             /\ destination' = IF r.result = "True" THEN destination \cup {target}
                               ELSE destination
             /\ lastExists' = [cli |-> probe.cli, rest |-> probe.rest,
                               result |-> check_github_repo_exists(probe)]
             /\ lastCreate' = [index |-> Len(calls) + 1, name |-> target,
                               result |-> r.result, how |-> r.how,
                               msg |-> IF r.create_called THEN create.msg ELSE <<>>]
             /\ calls' = Append(calls, [exists |-> check_github_repo_exists(probe),
                                        result |-> r.result,
                                        create_called |-> r.create_called])
             /\ IF r.result = "raise"
                THEN Uncaught
                ELSE UNCHANGED <<pc, exitCode, exitReason>>
    /\ UNCHANGED <<config, restarts, confirm, printed, skipped, inventory, selected,
                   batch, transfer>>

NextProvision == EnsureCreated

SpecProvision == InitProvision /\ [][NextProvision]_vars

(* get_safe_repo_name called on any descriptor *)
InitSafeName ==
    /\ pc = "safe_name"
    /\ gitlab_token = TRUE
    /\ github_token = TRUE
    /\ use_github_import = FALSE
    /\ gh_installed = TRUE
    /\ git_installed = TRUE
    /\ selected \in {<<d>> : d \in Descriptors}
    /\ target = <<>>
    /\ Fresh

(* lines 56-73, called on selected[1]; target receives what it returns *)
SafeName ==
    /\ pc = "safe_name"
    /\ target' = get_safe_repo_name(selected[1])
    /\ pc' = "safe_name_return"
    /\ UNCHANGED <<exitCode, exitReason, config, restarts, confirm, printed, ops,
                   skipped, inventory, selected, batch, provision, steps, tempDirs,
                   polls, lastStatus, code_ok>>

NextSafeName == SafeName

SpecSafeName == InitSafeName /\ [][NextSafeName]_vars

-----------------------------------------------------------------------------
(* Properties. *)

(* every selected repository was provisioned and transferred *)
AllSucceeded ==
    /\ Len(outcome) = total
    /\ \A k \in 1..total : outcome[k] = "ok"

(* positions inside a transfer function once the destination name is fixed *)
TransferPcs ==
    {"mirror_clone", "mirror_remote_rm", "mirror_remote_add", "mirror_push",
     "mirror_exit", "import_poll", "transfer_return"}

(* display names of the first k selected repositories that did not succeed *)
RECURSIVE FailedNames(_)
FailedNames(k) ==
    IF k = 0 THEN <<>>
    ELSE IF outcome[k] = "ok" THEN FailedNames(k - 1)
    ELSE Append(FailedNames(k - 1), selected[k].name)

(* C1: when migrate_repositories ends, the exit code is 0 exactly when the
   selection is non-empty and every selected repository succeeded, and 1 in
   every other case, the empty selection included. *)
C1_ExitCode ==
    pc = "exited" =>
        IF total > 0 /\ AllSucceeded THEN exitCode = 0 ELSE exitCode = 1

C1_Witness ==
    /\ pc = "exited"
    /\ exitReason = "summary"
    /\ total = 2
    /\ AllSucceeded
    /\ exitCode = 0

(* C2: a run through main that got a selection from the operator and was not
   cancelled ends with exit code 0 if every selected repository succeeded, and
   with 1 if one failed or the selection was empty. *)
C2_MainExitCode ==
    (pc = "exited" /\ exitReason \in {"summary", "uncaught", "empty_selection"}) =>
        IF selected # <<>> /\ AllSucceeded THEN exitCode = 0 ELSE exitCode = 1

(* C3: no failure aborts the batch: when the run has ended, every selected
   repository has been processed, once and in the order of the selection, and
   has its result recorded. *)
C3_BatchNeverAborts ==
    pc = "exited" => (processed = selected /\ Len(outcome) = total)

(* C4: between loop bodies and at the summary, succeeded + failed is the
   number of repositories processed, the succeeded count is the number of
   repositories provisioned and transferred, and the failed list holds the
   display names of all others in selection order; at the summary the number
   processed is the length of the selection. *)
C4_Accounting ==
    /\ (pc = "loop" \/ exitReason = "summary") =>
          /\ Len(outcome) = i
          /\ successful_code + Len(failed_repos) = i
          /\ successful_code = Cardinality({k \in 1..i : outcome[k] = "ok"})
          /\ failed_repos = FailedNames(i)
    /\ exitReason = "summary" =>
          /\ i = total
          /\ processed = selected

C4_Witness ==
    /\ exitReason = "summary"
    /\ total = 2
    /\ outcome = <<"create_failed", "ok">>
    /\ successful_code = 1
    /\ failed_repos = <<selected[1].name>>
    /\ exitCode = 1

(* C5: while a repository is being transferred, the latest create_github_repo
   call was made for this repository, returned true, and confirmed the very
   destination name the transfer addresses. *)
C5_TransferOnlyToConfirmed ==
    pc \in TransferPcs =>
        /\ lastCreate.index = i
        /\ lastCreate.result = "True"
        /\ target = lastCreate.name

(* number of `gh repo create` invocations made by the first k calls *)
CreateCount(k) == Cardinality({j \in 1..k : calls[j].create_called})

(* C6 as claimed: two create_github_repo calls in succession on one name both
   return true and invoke `gh repo create` at most once, whatever the
   existence probes answer. *)
C6_Idempotent ==
    Len(calls) >= 2 =>
        /\ calls[1].result = "True"
        /\ calls[2].result = "True"
        /\ CreateCount(2) <= 1

(* C6 amended: when the first call returned true and the existence check of
   the second call finds the repository, the second call returns true without
   invoking `gh repo create`, so the two calls invoke it at most once. *)
C6_IdempotentWhenFound ==
    (Len(calls) >= 2 /\ calls[1].result = "True" /\ calls[2].exists = "True") =>
        /\ calls[2].result = "True"
        /\ ~calls[2].create_called
        /\ CreateCount(2) <= 1

C6_Witness ==
    /\ Len(calls) = 2
    /\ calls[1].create_called
    /\ calls[1].result = "True"
    /\ calls[2].exists = "True"
    /\ calls[2].result = "True"

(* the create call ended in CalledProcessError *)
CreateErrored == lastCreate.how \in {"absorbed", "failed"}

(* the repository of the latest create_github_repo call went on to its
   transfer *)
ProceedsToTransfer ==
    /\ lastCreate.result = "True"
    /\ lastCreate.index = i
    /\ IF Len(outcome) < i
       THEN pc \in TransferPcs \cup {"mirror_enter", "import_submit", "exited"}
       ELSE outcome[i] # "create_failed"

(* C7 as claimed: a create call failing with an error text that contains
   "already exists" makes create_github_repo return true, and the repository
   proceeds to its transfer. *)
C7_AlreadyExistsIsSuccess ==
    (CreateErrored /\ Contains(LowerText(lastCreate.msg), <<"already", "exists">>))
        => ProceedsToTransfer

(* C7 amended: a create call failing with an error text that contains
   "name already exists on this account", in any letter case, makes
   create_github_repo return true, and the repository proceeds to its
   transfer. *)
C7_NameAlreadyExistsIsSuccess ==
    (CreateErrored /\ Contains(LowerText(lastCreate.msg),
                               <<"name", "already", "exists", "on", "this", "account">>))
        => ProceedsToTransfer

C7_Witness ==
    /\ lastCreate.how = "absorbed"
    /\ lastCreate.msg = MsgRest
    /\ pc \in {"mirror_clone", "import_poll"}

(* C8: check_github_repo_exists always answers True or False: True when the
   CLI probe exits 0, without a REST probe; otherwise True exactly when the
   REST probe answers HTTP 200. *)
C8_ExistsIsBoolean ==
    lastExists # NoProbe =>
        /\ lastExists.result \in {"True", "False"}
        /\ lastExists.cli = "exit0" =>
              (lastExists.result = "True" /\ lastExists.rest = "not_called")
        /\ lastExists.cli # "exit0" =>
              (lastExists.result = "True" <=> lastExists.rest = "200")

C8_Witness ==
    /\ lastExists.cli = "FileNotFoundError"
    /\ lastExists.rest = "RequestException"
    /\ lastExists.result = "False"

(* the submission of the running import transfer was accepted *)
SubmissionAccepted ==
    /\ use_github_import
    /\ steps # <<>>
    /\ steps[1][1] = "submit"
    /\ Accepted(steps[1][2])

TimedOut == Len(steps) = 2 /\ steps[2][1] = "timeout"

(* C9: after an accepted submission, polling goes on only over statuses other
   than complete, error and failed; the transfer returns true exactly on a
   poll answering complete, false at once on a poll answering error or failed,
   and false by timeout only after 120 polls none of which was terminal. *)
C9_PollSequence ==
    /\ pc = "import_poll" =>
          /\ polls <= MaxPolls
          /\ polls > 0 => lastStatus \in {"importing", "absent"}
    /\ (pc = "transfer_return" /\ SubmissionAccepted) =>
          /\ polls \in 1..MaxPolls
          /\ lastStatus = "complete" => code_ok = "True"
          /\ lastStatus \in {"error", "failed"} => (code_ok = "False" /\ ~TimedOut)
          /\ code_ok = "True" => lastStatus = "complete"
          /\ lastStatus \in {"importing", "absent"} =>
                (code_ok = "False" /\ TimedOut /\ polls = MaxPolls)
          /\ TimedOut => (polls = MaxPolls /\ lastStatus \in {"importing", "absent"})

C9_Witness ==
    /\ pc = "transfer_return"
    /\ SubmissionAccepted
    /\ polls = 3
    /\ lastStatus = "complete"
    /\ code_ok = "True"

(* C10: at most one temporary directory exists at any time, only inside the
   with block of the mirror transfer, and none exists once the transfer has
   returned, whether it succeeded or failed. *)
C10_NoLeakedTempDir ==
    /\ tempDirs \in {0, 1}
    /\ tempDirs = 1 =>
          pc \in {"mirror_clone", "mirror_remote_rm", "mirror_remote_add",
                  "mirror_push", "mirror_exit"}
    /\ pc \in {"loop", "transfer_return", "mirror_enter", "import_submit",
               "import_poll", "exited"} => tempDirs = 0

C10_Witness ==
    /\ pc = "loop"
    /\ ~use_github_import
    /\ outcome = <<"transfer_failed", "ok">>
    /\ tempDirs = 0

(* C11: no text printed by run_and_stream or by the failure report of the
   mirror transfer contains the destination access token. *)
C11_NoTokenPrinted == \A text \in printed : ~HasToken(text)

(* the last path segment of a clone URL, a trailing .git stripped and spaces
   replaced by hyphens *)
UrlSlug(url) ==
    LET last == PathName(UrlPath(url))
    IN  ReplaceSpaces(IF EndsWithDotGit(last) THEN SubSeq(last, 1, Len(last) - 4)
                      ELSE last)

(* C12: get_safe_repo_name returns the path slug when the descriptor has one;
   else the last path segment of the clone URL, .git stripped and spaces
   replaced by hyphens; else, with neither slug nor URL, the display name
   with spaces replaced by hyphens. *)
C12_SafeNameCases ==
    pc = "safe_name_return" =>
        LET d == selected[1]
        IN  IF d.path # <<>> THEN target = d.path
            ELSE IF d.http_url_to_repo # <<>> THEN target = UrlSlug(d.http_url_to_repo)
            ELSE target = ReplaceSpaces(d.name)

(* C13: when a token is missing, or the listing endpoint answers a page with
   a status other than 200, the process ends at once with a non-zero exit
   code and no existence check, create call or transfer is performed in the
   run, even when earlier pages were fetched. *)
C13_FatalStartup ==
    /\ (~gitlab_token \/ ~github_token) =>
          /\ pc \in {"init", "exited"}
          /\ pc = "exited" => exitCode = 1
          /\ ops = {}
          /\ processed = <<>>
    /\ pageStatus \notin {"none", "200"} =>
          /\ pc = "exited"
          /\ exitCode = 1
          /\ ops = {}
          /\ processed = <<>>

C13_Witness ==
    /\ pc = "exited"
    /\ exitReason = "list_failed"
    /\ pageStatus = "500"
    /\ Len(repos) = 2
    /\ exitCode = 1
    /\ ops = {}

(* C14: in a run started after a summary that reported failed repositories,
   each of them can be selected again: select_repositories never leaves out a
   reported repository the operator picks. *)
C14_RerunOfFailures ==
    runs > 1 => \A k \in 1..Len(reported) : reported[k] \notin skipped

(* C15: the existence check, the create call and the transfer of a repository
   all address the one name get_safe_repo_name derives from its descriptor,
   under either transfer strategy. *)
C15_OneDestinationName ==
    pc \in TransferPcs =>
        /\ lastCreate.name = get_safe_repo_name(repo)
        /\ target = get_safe_repo_name(repo)

(* C16: create_github_repo and the transfer functions end in True or False,
   never in an exception, so migrate_repositories always ends at its summary. *)
C16_NoFaultEscapes ==
    /\ lastCreate.result \in {"none", "True", "False"}
    /\ code_ok \in {"none", "True", "False"}
    /\ pc = "exited" => exitReason = "summary"

(* the commands of the mirror transfer, in the order of the code *)
MirrorOrder == <<"clone", "remote_rm", "remote_add", "push">>

(* the named step of the running mirror transfer ran and exited with out *)
StepEnded(name, out) == \E k \in 1..Len(steps) : steps[k] = <<name, out>>

(* C17: the mirror transfer runs clone, remove origin, add origin, push in
   this order; a non-zero exit of clone, add origin or push ends it with the
   result false, a non-zero exit of remove origin is ignored, and the result
   is true exactly when clone, add origin and push all exited zero. *)
C17_MirrorSequence ==
    ~use_github_import =>
        /\ Len(steps) <= 4
        /\ \A k \in 1..Len(steps) : steps[k][1] = MirrorOrder[k]
        /\ \A k \in 1..(Len(steps) - 1) :
              \/ steps[k][2] = "exit0"
              \/ steps[k] = <<"remote_rm", "nonzero">>
        /\ pc \in {"mirror_exit", "transfer_return"} =>
              /\ code_ok = "True" <=>
                    /\ StepEnded("clone", "exit0")
                    /\ StepEnded("remote_add", "exit0")
                    /\ StepEnded("push", "exit0")
              /\ (\E name \in {"clone", "remote_add", "push"} : StepEnded(name, "nonzero"))
                    => code_ok = "False"

C17_Witness ==
    /\ pc = "transfer_return"
    /\ steps = <<<<"clone", "exit0">>, <<"remote_rm", "nonzero">>,
                 <<"remote_add", "exit0">>, <<"push", "exit0">>>>
    /\ code_ok = "True"

(* C18: an import transfer submits its job once; polls are issued only after
   a submission answered 201 or 202, and any other answer ends the transfer
   with the result false and no poll. *)
C18_SubmitOnce ==
    use_github_import =>
        /\ pc \in {"import_poll", "transfer_return"} =>
              /\ steps[1][1] = "submit"
              /\ Cardinality({k \in 1..Len(steps) : steps[k][1] = "submit"}) = 1
        /\ (pc = "import_poll" \/ polls > 0) => steps[1][2] \in {"201", "202"}
        /\ (pc = "transfer_return" /\ steps[1][2] \notin {"201", "202"}) =>
              /\ polls = 0
              /\ code_ok = "False"

C18_Witness ==
    /\ pc = "transfer_return"
    /\ steps = <<<<"submit", "200">>>>
    /\ polls = 0
    /\ code_ok = "False"

(* C19: an import transfer issues at most 120 polls and then ends with the
   result true or false; a poll answered with a status other than 200, or
   ended by a request error, ends the transfer with the result false and no
   further poll. *)
C19_BoundedPolling ==
    /\ polls <= 120
    /\ pc = "import_poll" =>
          /\ lastStatus \notin {"http404", "RequestException"}
          /\ ENABLED (ImportPoll \/ ImportTimeout)
    /\ (pc = "transfer_return" /\ use_github_import) =>
          /\ code_ok \in {"True", "False"}
          /\ lastStatus \in {"http404", "RequestException"} => code_ok = "False"

C19_Witness ==
    /\ pc = "transfer_return"
    /\ polls = 2
    /\ lastStatus = "http404"
    /\ code_ok = "False"

(* slugs of those of the first k selected repositories whose
   create_github_repo call returned true, in selection order *)
RECURSIVE ProvisionedSlugs(_)
ProvisionedSlugs(k) ==
    IF k = 0 THEN <<>>
    ELSE IF outcome[k] = "create_failed" THEN ProvisionedSlugs(k - 1)
    ELSE Append(ProvisionedSlugs(k - 1), get_safe_repo_name(selected[k]))

(* slugs of those of the first k selected repositories that were provisioned
   and transferred, in selection order *)
RECURSIVE TransferredSlugs(_)
TransferredSlugs(k) ==
    IF k = 0 THEN <<>>
    ELSE IF outcome[k] # "ok" THEN TransferredSlugs(k - 1)
    ELSE Append(TransferredSlugs(k - 1), get_safe_repo_name(selected[k]))

(* the list is left alone or gets one slug appended *)
SucceededAppendOnly ==
    \/ succeeded_repos_safe' = succeeded_repos_safe
    \/ \E r \in OwnedRepos :
          succeeded_repos_safe' = Append(succeeded_repos_safe, get_safe_repo_name(r))

(* C20 as claimed: between loop bodies and at the summary, succeeded_repos_safe
   holds, in selection order, the slug of exactly those processed repositories
   whose create_github_repo call returned true. *)
C20_ProvisionedListed ==
    (pc = "loop" \/ exitReason = "summary") =>
        succeeded_repos_safe = ProvisionedSlugs(i)

(* C20 amended: succeeded_repos_safe holds, in selection order, the slug of
   exactly those repositories that were provisioned and whose transfer
   returned true, and it only ever grows by appending. *)
C20_TransferredListed ==
    /\ [](succeeded_repos_safe = TransferredSlugs(Len(outcome)))
    /\ [][SucceededAppendOnly]_vars

C20_Witness ==
    /\ exitReason = "summary"
    /\ outcome = <<"transfer_failed", "ok">>
    /\ succeeded_repos_safe = <<get_safe_repo_name(selected[2])>>

(* the methods that change the destination: create_github_repo issues
   `gh repo create`, the transfers push or submit an import *)
Mutating ==
    {"create_github_repo", "migrate_repository_code",
     "migrate_repository_via_github_import"}

(* nothing has been changed or asked to change at the destination *)
DestinationUntouched ==
    /\ ops \cap Mutating = {}
    /\ lastCreate = NoCreate
    /\ processed = <<>>
    /\ steps = <<>>

(* C21: as long as the confirmation prompt has not been answered y or yes, no
   create call, mirror push or import submission has been issued; a run the
   operator quits at the selection, or ends with any other answer, ends with
   nothing but listing and existence probes performed. *)
C21_NoMutationBeforeConfirm ==
    /\ confirm \notin {"y", "yes"} => DestinationUntouched
    /\ exitReason \in {"quit", "cancelled"} =>
          /\ DestinationUntouched
          /\ ops = {"check_github_repo_exists"}
          /\ exitCode = 0

C21_Witness ==
    /\ exitReason = "cancelled"
    /\ confirm = ""
    /\ selected # <<>>
    /\ ops = {"check_github_repo_exists"}
    /\ DestinationUntouched

====
